---- MODULE Spec2Model ----
(***************************************************************************)
(* The gadget command layer of nuclide-gadgets (createCommands) as a state *)
(* machine: the registry read through getState, the action stream written  *)
(* through observer, the workspace panes mutated by replacePlaceholders,   *)
(* and the per-item notification channel built by createPaneItem; and the  *)
(* outline labels of nuclide-clang-atom (OutlineViewHelpers).              *)
(***************************************************************************)
EXTENDS Naturals, Integers, Sequences, FiniteSets, TLC

(* ------------------------------ bounds --------------------------------- *)
\* items restored into the workspace before the commands run
MaxItems == 2
\* events delivered on the action stream and not yet applied by the reducer
MaxPending == 1
\* gadget pane items created by direct createPaneItem / openUri calls
MaxLive == 2
\* subscriptions made through the subscribe capability of pane items
MaxSubs == 2
\* notify() calls per pane item
MaxNotify == 2

(* ------------------------------ data ----------------------------------- *)
GadgetIds == {"g1", "g2"}
Panes == {1, 2}
NumPanes == Cardinality(Panes)

\* "no gadget" (undefined), as a record so that it compares with descriptors
NoGadget == [gadgetId |-> "none", hasDeserializeState |-> FALSE, uri |-> <<>>]
\* "no item": the undefined a command returns
NoItem == [id |-> 0, kind |-> "none", gadgetId |-> "none", initialState |-> "null"]

\* the gadgets packages may register: g1 has a deserializeState hook, g2 has none
RawGadgets ==
    {[gadgetId |-> "g1", hasDeserializeState |-> TRUE, uri |-> <<>>],
     [gadgetId |-> "g2", hasDeserializeState |-> FALSE, uri |-> <<>>]}

\* the raw initial-state blobs a placeholder may carry (null or a blob)
RawStates == {"null", "raw"}

\* gadget.deserializeState(raw)
deserializeState(raw) == IF raw = "null" THEN "state()" ELSE "state(raw)"

\* GadgetUri.format / GadgetUri.parse: a URI is <<scheme, gadgetId>>
GadgetScheme == "atom-gadget"
format(gadgetId) == <<GadgetScheme, gadgetId>>
NoMatch == [gadgetId |-> "none"]
parse(uri) ==
    IF Len(uri) = 2 /\ uri[1] = GadgetScheme THEN [gadgetId |-> uri[2]] ELSE NoMatch
\* the URIs the host probes openUri with: the gadget URIs, and URIs of other
\* schemes (one of them with a gadget id as its path)
Uris == {format(g) : g \in GadgetIds} \cup {<<"file", "a.txt">>, <<"file", "g1">>}

\* wrapGadget: attaches the URI, keeps every other field, wraps only once
wrapGadget(gadget) ==
    IF gadget.uri # <<>> THEN gadget ELSE [gadget EXCEPT !.uri = format(gadget.gadgetId)]

EmptyRegistry == [g \in GadgetIds |-> NoGadget]

(* ------------------------------ state ---------------------------------- *)
VARIABLES
    gadgets,      \* getState().get('gadgets'): gadget id -> descriptor or NoGadget
    pending,      \* events delivered by observer.onNext, not yet reduced
    isStopped,    \* observer.onCompleted() has been signalled
    panes,        \* pane -> its items, in order
    activeItem,   \* pane -> id of its active item (0: none)
    nextId,       \* identity of the next object created
    live,         \* gadget pane item id -> its component and state$ subject
    calls,        \* subscription -> number of times its callback ran
    result,       \* what the last command (or getOutline) returned
    hostOpen,     \* what the last command asked atom.workspace.open for
    call,         \* the last command (or getOutline) called, the events it gave onNext
    pc,           \* position of replacePlaceholders
    rp,           \* locals of replacePlaceholders
    stable,       \* replacePlaceholders returned and the registry has not changed since
    opening       \* items atom.workspace.open adds to a pane when its promise resolves

vars == <<gadgets, pending, isStopped, panes, activeItem, nextId,
          live, calls, result, hostOpen, call, pc, rp, stable, opening>>

NoCall == [op |-> "none", arg |-> "none", emitted |-> <<>>]
NoOpen == [uri |-> <<>>, searchAllPanes |-> FALSE]
NoLocals ==
    [pane |-> 0, items |-> <<>>, index |-> 0, ops |-> <<>>, examined |-> <<>>,
     startPanes |-> <<>>, startActive |-> <<>>, startGadgets |-> <<>>]

(* ------------------------------ panes ---------------------------------- *)
\* a check of "has a gadget id" instead of "is a GadgetPlaceholder"
isPlaceholder_anyGadgetItem(item) == item.gadgetId # "none"

\* item instanceof GadgetPlaceholder
isPlaceholder(item) == item.kind = "placeholder"

IndexOf(seq, id) ==
    IF \E i \in 1..Len(seq) : seq[i].id = id
    THEN CHOOSE i \in 1..Len(seq) : seq[i].id = id
    ELSE 0

\* pane.addItem(item, index): index is 0-based; the pane activates the item
\* only when it had no active item
InsertAt(seq, item, index) ==
    LET k == IF index > Len(seq) THEN Len(seq) ELSE index
    IN  SubSeq(seq, 1, k) \o <<item>> \o SubSeq(seq, k + 1, Len(seq))

\* pane.destroyItem(item): the items left
RemoveItem(seq, id) ==
    LET k == IndexOf(seq, id)
    IN  IF k = 0 THEN seq ELSE SubSeq(seq, 1, k - 1) \o SubSeq(seq, k + 1, Len(seq))

\* the items a restored workspace may hold: placeholders of gadgets that are
\* not registered yet, and other items (editors) that belong to no gadget
PlaceholderOf(id, gadgetId, raw) ==
    [id |-> id, kind |-> "placeholder", gadgetId |-> gadgetId, initialState |-> raw]
OtherItem(id) ==
    [id |-> id, kind |-> "item", gadgetId |-> "none", initialState |-> "null"]
RestoredItems(id, raws) ==
    {PlaceholderOf(id, g, raw) : g \in GadgetIds, raw \in raws} \cup {OtherItem(id)}

ItemIds(seq) == {seq[i].id : i \in 1..Len(seq)}

(* ------------------------------ observer ------------------------------- *)
\* the registry captured when the commands were created, never read again
getState_atConstruction == [gadgets |-> EmptyRegistry]

\* getState: the injected accessor, read again by every lookup
getState == [gadgets |-> gadgets]

\* observer.onNext(event) on the action stream: a stopped stream drops it
onNext(queue, event) == IF isStopped THEN queue ELSE Append(queue, event)

\* commands run to completion: none starts while replacePlaceholders runs
Ready == pc \in {"idle", "returned"}
Called(op, arg, events) == call' = [op |-> op, arg |-> arg, emitted |-> events]
\* a command that is not replacePlaceholders leaves its locals cleared
Returns(item, open) ==
    /\ result' = item
    /\ hostOpen' = open
    /\ pc' = "idle"
    /\ rp' = NoLocals

(* ------------------------------ commands ------------------------------- *)
\* onCompleted signalled before the DEACTIVATE event is handed over
deactivate_completeFirst ==
    /\ Ready
    /\ isStopped' = TRUE
    /\ pending' = pending
    /\ Called("deactivate", "none", <<[type |-> "DEACTIVATE"]>>)
    /\ Returns(NoItem, NoOpen)
    /\ UNCHANGED <<opening, gadgets, panes, activeItem, nextId, live, calls, stable>>

deactivate ==
    /\ Ready
    /\ pending' = onNext(pending, [type |-> "DEACTIVATE"])
    /\ isStopped' = TRUE
    /\ Called("deactivate", "none", <<[type |-> "DEACTIVATE"]>>)
    /\ Returns(NoItem, NoOpen)
    /\ UNCHANGED <<opening, gadgets, panes, activeItem, nextId, live, calls, stable>>

\* the component createComponentItem instantiates, with its state$ subject
newComponent(initialState) ==
    [state |-> initialState, observers |-> <<>>, notified |-> 0, published |-> <<>>,
     delivered |-> <<>>]
newPaneItem(id, gadgetId, initialState) ==
    [id |-> id, kind |-> "gadget", gadgetId |-> gadgetId, initialState |-> initialState]

\* createPaneItem's return value and what it constructs
createdItem(gadgetId, initialState) ==
    IF getState.gadgets[gadgetId] = NoGadget
    THEN NoItem
    ELSE newPaneItem(nextId, gadgetId, initialState)
\* the state$ subject and component built before the gadget is looked up
created_beforeLookup(gadgetId, initialState) ==
    /\ nextId' = nextId + 1
    /\ live' = (nextId :> newComponent(initialState)) @@ live

created(gadgetId, initialState) ==
    IF createdItem(gadgetId, initialState) = NoItem
    THEN UNCHANGED <<nextId, live>>
    ELSE /\ nextId' = nextId + 1
         /\ live' = (nextId :> newComponent(initialState)) @@ live

createPaneItem(gadgetId, initialState) ==
    /\ Ready
    /\ createdItem(gadgetId, initialState) # NoItem => Cardinality(DOMAIN live) < MaxLive
    /\ created(gadgetId, initialState)
    /\ Called("createPaneItem", gadgetId, <<>>)
    /\ Returns(createdItem(gadgetId, initialState), NoOpen)
    /\ UNCHANGED <<opening, gadgets, pending, isStopped, panes, activeItem,
                   calls, stable>>

\* an openUri that takes the path of a URI of any scheme for a gadget id
openUri_anyScheme(uri) ==
    /\ Ready
    /\ (uri[2] \in GadgetIds /\ createdItem(uri[2], "null") # NoItem)
          => Cardinality(DOMAIN live) < MaxLive
    /\ Called("openUri", uri, <<>>)
    /\ IF uri[2] \notin GadgetIds
       THEN /\ Returns(NoItem, NoOpen)
            /\ UNCHANGED <<nextId, live>>
       ELSE /\ created(uri[2], "null")
            /\ Returns(createdItem(uri[2], "null"), NoOpen)
    /\ UNCHANGED <<opening, gadgets, pending, isStopped, panes, activeItem,
                   calls, stable>>

openUri(uri) ==
    /\ Ready
    /\ (parse(uri) # NoMatch /\ createdItem(parse(uri).gadgetId, "null") # NoItem)
          => Cardinality(DOMAIN live) < MaxLive
    /\ Called("openUri", uri, <<>>)
    /\ IF parse(uri) = NoMatch
       THEN /\ Returns(NoItem, NoOpen)
            /\ UNCHANGED <<nextId, live>>
       ELSE /\ created(parse(uri).gadgetId, "null")
            /\ Returns(createdItem(parse(uri).gadgetId, "null"), NoOpen)
    /\ UNCHANGED <<opening, gadgets, pending, isStopped, panes, activeItem,
                   calls, stable>>

\* the event carrying the gadget as given, not wrapped
registerEvent_unwrapped(gadget) ==
    [type |-> "REGISTER_GADGET", payload |-> [gadget |-> gadget]]

registerEvent(gadget) ==
    [type |-> "REGISTER_GADGET", payload |-> [gadget |-> wrapGadget(gadget)]]
registerGadget(gadget) ==
    /\ Ready
    /\ isStopped \/ Len(pending) < MaxPending
    /\ pending' = onNext(pending, registerEvent(gadget))
    /\ Called("registerGadget", gadget, <<registerEvent(gadget)>>)
    /\ Returns(NoItem, NoOpen)
    /\ UNCHANGED <<opening, gadgets, isStopped, panes, activeItem, nextId, live, calls, stable>>

unregisterEvent(gadgetId) ==
    [type |-> "UNREGISTER_GADGET", payload |-> [gadgetId |-> gadgetId]]
unregisterGadget(gadgetId) ==
    /\ Ready
    /\ isStopped \/ Len(pending) < MaxPending
    /\ pending' = onNext(pending, unregisterEvent(gadgetId))
    /\ Called("unregisterGadget", gadgetId, <<unregisterEvent(gadgetId)>>)
    /\ Returns(NoItem, NoOpen)
    /\ UNCHANGED <<opening, gadgets, isStopped, panes, activeItem, nextId, live, calls, stable>>

showGadget(gadgetId) ==
    /\ Ready
    /\ Returns(NoItem, [uri |-> format(gadgetId), searchAllPanes |-> TRUE])
    /\ Called("showGadget", gadgetId, <<>>)
    /\ UNCHANGED <<opening, gadgets, pending, isStopped, panes, activeItem,
                   nextId, live, calls, stable>>

(* ------------------- notify / subscribe of a pane item ----------------- *)
\* the states a component may be in
ComponentStates == {"null", "changed"}

\* component.setState: the component's state changes (or is set to an equal value)
setState(id, value) ==
    /\ Ready
    /\ id \in DOMAIN live
    /\ live[id].state # value
    /\ live' = [live EXCEPT ![id].state = value]
    /\ UNCHANGED <<opening, gadgets, pending, isStopped, panes, activeItem, nextId, calls,
                   result, hostOpen, call, pc, rp, stable>>

\* a subscribe on a subject that replays the last state published to a new
\* observer (a buffered subject)
subscribe_replayLast(id) ==
    /\ Ready
    /\ id \in DOMAIN live
    /\ Len(calls) < MaxSubs
    /\ live' = [live EXCEPT ![id].observers =
                  Append(@, [sub |-> Len(calls) + 1, since |-> live[id].notified])]
    /\ calls' = Append(calls, IF live[id].published = <<>> THEN 0 ELSE 1)
    /\ UNCHANGED <<opening, gadgets, pending, isStopped, panes, activeItem, nextId,
                   result, hostOpen, call, pc, rp, stable>>

\* subscribe(cb): state$.forEach(() => cb()) adds one observer to the subject
subscribe(id) ==
    /\ Ready
    /\ id \in DOMAIN live
    /\ Len(calls) < MaxSubs
    /\ live' = [live EXCEPT ![id].observers =
                  Append(@, [sub |-> Len(calls) + 1, since |-> live[id].notified])]
    /\ calls' = Append(calls, 0)
    /\ UNCHANGED <<opening, gadgets, pending, isStopped, panes, activeItem, nextId,
                   result, hostOpen, call, pc, rp, stable>>

\* the disposable subscribe returned is disposed: the observer is removed
dispose(id, k) ==
    /\ Ready
    /\ id \in DOMAIN live
    /\ k \in 1..Len(live[id].observers)
    /\ live' = [live EXCEPT ![id].observers =
                  SubSeq(@, 1, k - 1) \o SubSeq(@, k + 1, Len(@))]
    /\ UNCHANGED <<opening, gadgets, pending, isStopped, panes, activeItem, nextId, calls,
                   result, hostOpen, call, pc, rp, stable>>

\* the callbacks state$.onNext runs: one per observer of the subject
invoked(observers) == {observers[k].sub : k \in 1..Len(observers)}
\* the order in which state$.onNext runs them: the order of the observers
delivery(observers) == [k \in 1..Len(observers) |-> observers[k].sub]

\* a notify that drops a state equal to the one published last
\* (distinctUntilChanged)
notify_distinctUntilChanged(id) ==
    /\ Ready
    /\ id \in DOMAIN live
    /\ live[id].notified < MaxNotify
    /\ LET c == live[id]
           same == c.published # <<>> /\ c.published[Len(c.published)] = c.state
       IN  /\ live' = [live EXCEPT
                         ![id].notified = @ + 1,
                         ![id].published = IF same THEN @ ELSE Append(@, c.state),
                         ![id].delivered = IF same THEN <<>> ELSE delivery(c.observers)]
           /\ calls' = [s \in 1..Len(calls) |->
                          IF ~same /\ s \in invoked(c.observers)
                          THEN calls[s] + 1 ELSE calls[s]]
    /\ UNCHANGED <<opening, gadgets, pending, isStopped, panes, activeItem, nextId,
                   result, hostOpen, call, pc, rp, stable>>

\* a notify on one subject shared by every pane item: the observers of
\* every item are invoked
notify_sharedSubject(id) ==
    /\ Ready
    /\ id \in DOMAIN live
    /\ live[id].notified < MaxNotify
    /\ live' = [live EXCEPT ![id].notified = @ + 1,
                            ![id].published = Append(@, live[id].state),
                            ![id].delivered = delivery(live[id].observers)]
    /\ calls' = [s \in 1..Len(calls) |->
                   IF \E j \in DOMAIN live : s \in invoked(live[j].observers)
                   THEN calls[s] + 1 ELSE calls[s]]
    /\ UNCHANGED <<opening, gadgets, pending, isStopped, panes, activeItem, nextId,
                   result, hostOpen, call, pc, rp, stable>>

\* notify(): state$.onNext(component.state), delivered synchronously to
\* every observer of the subject
notify(id) ==
    /\ Ready
    /\ id \in DOMAIN live
    /\ live[id].notified < MaxNotify
    /\ live' = [live EXCEPT ![id].notified = @ + 1,
                            ![id].published = Append(@, live[id].state),
                            ![id].delivered = delivery(live[id].observers)]
    /\ calls' = [s \in 1..Len(calls) |->
                   IF s \in invoked(live[id].observers) THEN calls[s] + 1 ELSE calls[s]]
    /\ UNCHANGED <<opening, gadgets, pending, isStopped, panes, activeItem, nextId,
                   result, hostOpen, call, pc, rp, stable>>

(* ------------------------- replacePlaceholders ------------------------- *)
\* the swap with the placeholder destroyed before the real item is added
paneOps_destroyFirst(item, realItem, index, isActive) ==
    <<[op |-> "destroyItem", item |-> item, index |-> 0],
      [op |-> "addItem", item |-> realItem, index |-> index]>>
    \o (IF isActive THEN <<[op |-> "setActiveItem", item |-> realItem, index |-> 0]>>
        ELSE <<>>)

\* the swap with the real item added at the end of the pane
paneOps_addLast(item, realItem, index, isActive) ==
    <<[op |-> "addItem", item |-> realItem, index |-> index + 1 + MaxItems],
      [op |-> "destroyItem", item |-> item, index |-> 0]>>
    \o (IF isActive THEN <<[op |-> "setActiveItem", item |-> realItem, index |-> 0]>>
        ELSE <<>>)

\* the swap without the setActiveItem of an active placeholder
paneOps_noActivate(item, realItem, index, isActive) ==
    <<[op |-> "addItem", item |-> realItem, index |-> index + 1],
      [op |-> "destroyItem", item |-> item, index |-> 0]>>

\* the pane mutations that swap a placeholder for its real item, in order
paneOps(item, realItem, index, isActive) ==
    <<[op |-> "addItem", item |-> realItem, index |-> index + 1],
      [op |-> "destroyItem", item |-> item, index |-> 0]>>
    \o (IF isActive THEN <<[op |-> "setActiveItem", item |-> realItem, index |-> 0]>>
        ELSE <<>>)

\* the call starts: atom.workspace.getPanes().forEach, first pane
rpBegin ==
    /\ Ready
    /\ pc' = "pane"
    /\ rp' = [NoLocals EXCEPT !.pane = 1, !.startPanes = panes,
                              !.startActive = activeItem, !.startGadgets = gadgets]
    /\ result' = NoItem
    /\ hostOpen' = NoOpen
    /\ Called("replacePlaceholders", "none", <<>>)
    /\ UNCHANGED <<opening, gadgets, pending, isStopped, panes, activeItem,
                   nextId, live, calls, stable>>

\* a call that scans the first pane only
rpPane_firstPaneOnly ==
    /\ pc = "pane"
    /\ IF rp.pane > 1
       THEN /\ pc' = "returned"
            /\ rp' = [rp EXCEPT !.pane = 0, !.items = <<>>, !.index = 0]
            /\ stable' = TRUE
       ELSE /\ pc' = "scan"
            /\ rp' = [rp EXCEPT !.items = panes[rp.pane],
                                !.index = Len(panes[rp.pane]) - 1]
            /\ stable' = stable
    /\ UNCHANGED <<opening, gadgets, pending, isStopped, panes, activeItem,
                   nextId, live, calls, result, hostOpen, call>>

\* the forEach callback starts on the next pane, or the call returns
rpPane ==
    /\ pc = "pane"
    /\ IF rp.pane > NumPanes
       THEN /\ pc' = "returned"
            /\ rp' = [rp EXCEPT !.pane = 0, !.items = <<>>, !.index = 0]
            /\ stable' = TRUE
       ELSE /\ pc' = "scan"
            /\ rp' = [rp EXCEPT !.items = panes[rp.pane],
                                !.index = Len(panes[rp.pane]) - 1]
            /\ stable' = stable
    /\ UNCHANGED <<opening, gadgets, pending, isStopped, panes, activeItem,
                   nextId, live, calls, result, hostOpen, call>>

\* the raw state deserialized whether or not the gadget has the hook
initialStateOf_alwaysDeserialize(gadget, item) == deserializeState(item.initialState)

\* the initial state handed to the real item of a placeholder
initialStateOf(gadget, item) ==
    IF gadget.hasDeserializeState
    THEN deserializeState(item.initialState)
    ELSE item.initialState

\* an iteration that swaps every placeholder, its gadget registered or not
rpScan_withoutLookup ==
    /\ pc = "scan"
    /\ IF rp.index < 0
       THEN /\ pc' = "pane"
            /\ rp' = [rp EXCEPT !.pane = @ + 1]
            /\ UNCHANGED <<nextId, live>>
       ELSE LET item == rp.items[rp.index + 1]
                gadget == getState.gadgets[item.gadgetId]
            IN  IF ~isPlaceholder(item)
                THEN /\ pc' = "scan"
                     /\ rp' = [rp EXCEPT !.index = @ - 1,
                                         !.examined = Append(@, item.id)]
                     /\ UNCHANGED <<nextId, live>>
                ELSE LET initialState == initialStateOf(gadget, item)
                         realItem == newPaneItem(nextId, item.gadgetId, initialState)
                         isActive == activeItem[rp.pane] = item.id
                     IN  /\ created_beforeLookup(item.gadgetId, initialState)
                         /\ pc' = "ops"
                         /\ rp' = [rp EXCEPT
                                     !.ops = paneOps(item, realItem, rp.index, isActive),
                                     !.examined = Append(@, item.id)]
    /\ UNCHANGED <<opening, gadgets, pending, isStopped, panes, activeItem,
                   calls, result, hostOpen, call, stable>>

\* one iteration of the reverse loop over the pane's items
rpScan ==
    /\ pc = "scan"
    /\ IF rp.index < 0
       THEN /\ pc' = "pane"
            /\ rp' = [rp EXCEPT !.pane = @ + 1]
            /\ UNCHANGED <<nextId, live>>
       ELSE LET item == rp.items[rp.index + 1]
                gadget == getState.gadgets[item.gadgetId]
            IN  IF ~isPlaceholder(item) \/ gadget = NoGadget
                THEN /\ pc' = "scan"
                     /\ rp' = [rp EXCEPT !.index = @ - 1,
                                         !.examined = Append(@, item.id)]
                     /\ UNCHANGED <<nextId, live>>
                ELSE LET initialState == initialStateOf(gadget, item)
                         realItem == createdItem(item.gadgetId, initialState)
                         isActive == activeItem[rp.pane] = item.id
                     IN  /\ created(item.gadgetId, initialState)
                         /\ pc' = "ops"
                         /\ rp' = [rp EXCEPT
                                     !.ops = paneOps(item, realItem, rp.index, isActive),
                                     !.examined = Append(@, item.id)]
    /\ UNCHANGED <<opening, gadgets, pending, isStopped, panes, activeItem,
                   calls, result, hostOpen, call, stable>>

\* the pane mutations of a swap, after which the loop reads the items of
\* the pane again and stays one position further up, on the item just added
rpApply_rescan ==
    /\ pc = "ops"
    /\ LET op == Head(rp.ops)
           p == rp.pane
       IN  /\ CASE op.op = "addItem" ->
                     /\ panes' = [panes EXCEPT ![p] = InsertAt(@, op.item, op.index)]
                     /\ activeItem' = [activeItem EXCEPT
                                         ![p] = IF @ = 0 THEN op.item.id ELSE @]
                [] op.op = "destroyItem" ->
                     /\ panes' = [panes EXCEPT ![p] = RemoveItem(@, op.item.id)]
                     /\ IF activeItem[p] # op.item.id
                        THEN activeItem' = activeItem
                        ELSE \E a \in (IF ItemIds(panes'[p]) = {} THEN {0}
                                       ELSE ItemIds(panes'[p])) :
                                activeItem' = [activeItem EXCEPT ![p] = a]
                [] op.op = "setActiveItem" ->
                     /\ panes' = panes
                     /\ activeItem' = [activeItem EXCEPT ![p] = op.item.id]
           /\ IF op.op = "addItem"
              THEN /\ pc' = "scan"
                   /\ rp' = [rp EXCEPT !.ops = <<>>, !.items = panes'[p], !.index = @ + 1]
              ELSE IF Tail(rp.ops) = <<>>
              THEN /\ pc' = "scan"
                   /\ rp' = [rp EXCEPT !.ops = <<>>, !.index = @ - 1]
              ELSE /\ pc' = "ops"
                   /\ rp' = [rp EXCEPT !.ops = Tail(@)]
    /\ UNCHANGED <<opening, gadgets, pending, isStopped, nextId, live, calls,
                   result, hostOpen, call, stable>>

\* one pane mutation: pane.addItem, pane.destroyItem or pane.setActiveItem
rpApply ==
    /\ pc = "ops"
    /\ LET op == Head(rp.ops)
           p == rp.pane
       IN  /\ CASE op.op = "addItem" ->
                     /\ panes' = [panes EXCEPT ![p] = InsertAt(@, op.item, op.index)]
                     /\ activeItem' = [activeItem EXCEPT
                                         ![p] = IF @ = 0 THEN op.item.id ELSE @]
                [] op.op = "destroyItem" ->
                     /\ panes' = [panes EXCEPT ![p] = RemoveItem(@, op.item.id)]
                     /\ IF activeItem[p] # op.item.id
                        THEN activeItem' = activeItem
                        ELSE \E a \in (IF ItemIds(panes'[p]) = {} THEN {0}
                                       ELSE ItemIds(panes'[p])) :
                                activeItem' = [activeItem EXCEPT ![p] = a]
                [] op.op = "setActiveItem" ->
                     /\ panes' = panes
                     /\ activeItem' = [activeItem EXCEPT ![p] = op.item.id]
           /\ IF Tail(rp.ops) = <<>>
              THEN /\ pc' = "scan"
                   /\ rp' = [rp EXCEPT !.ops = <<>>, !.index = @ - 1]
              ELSE /\ pc' = "ops"
                   /\ rp' = [rp EXCEPT !.ops = Tail(@)]
    /\ UNCHANGED <<opening, gadgets, pending, isStopped, nextId, live, calls,
                   result, hostOpen, call, stable>>

(* ------------------------------ reducer -------------------------------- *)
\* the registry after one event of the action stream
accumulateState(state, event) ==
    CASE event.type = "REGISTER_GADGET" ->
           [state EXCEPT ![event.payload.gadget.gadgetId] = event.payload.gadget]
      [] event.type = "UNREGISTER_GADGET" ->
           [state EXCEPT ![event.payload.gadgetId] = NoGadget]
      [] OTHER -> state

\* the reducer applies the oldest delivered event, between two commands
reduce ==
    /\ Ready
    /\ pending # <<>>
    /\ gadgets' = accumulateState(gadgets, Head(pending))
    /\ pending' = Tail(pending)
    /\ stable' = (stable /\ gadgets' = gadgets)
    /\ pc' = "idle"
    /\ rp' = NoLocals
    /\ Called("reduce", "none", <<>>)
    /\ UNCHANGED <<opening, isStopped, panes, activeItem, nextId, live, calls,
                   result, hostOpen>>

(* --------------------------- specification ----------------------------- *)
\* the workspace as restored: n <= maxItems items, the first a of them in
\* pane 1, placeholders carrying a raw state of raws; every non-empty pane
\* has an active item
Restored(maxItems, raws) ==
    /\ \E n \in 0..maxItems : \E a \in 0..n :
         \E f \in [1..n -> UNION {RestoredItems(i, raws) : i \in 1..n}] :
           /\ \A i \in 1..n : f[i].id = i
           /\ panes = [p \in Panes |->
                         IF p = 1 THEN SubSeq(f, 1, a) ELSE SubSeq(f, a + 1, n)]
           /\ nextId = n + 1
    /\ activeItem \in [Panes -> 0..maxItems]
    /\ \A p \in Panes :
         IF panes[p] = <<>> THEN activeItem[p] = 0 ELSE activeItem[p] \in ItemIds(panes[p])

\* the state after createCommands(observer, getState): nothing registered,
\* nothing emitted, no pane item created
Activated ==
    /\ gadgets = EmptyRegistry
    /\ pending = <<>>
    /\ isStopped = FALSE
    /\ live = <<>>
    /\ calls = <<>>
    /\ result = NoItem
    /\ hostOpen = NoOpen
    /\ call = NoCall
    /\ pc = "idle"
    /\ rp = NoLocals
    /\ stable = FALSE
    /\ opening = <<>>

replacePlaceholders == rpBegin \/ rpPane \/ rpScan \/ rpApply

\* every command of the layer, over a workspace restored with at most one item
Init == Activated /\ Restored(1, {"raw"})

Next ==
    \/ deactivate
    \/ \E uri \in Uris : openUri(uri)
    \/ \E g \in GadgetIds : createPaneItem(g, "null")
    \/ \E gadget \in RawGadgets : registerGadget(gadget)
    \/ \E g \in GadgetIds : unregisterGadget(g)
    \/ replacePlaceholders
    \/ \E g \in GadgetIds : showGadget(g)
    \/ reduce

Spec == Init /\ [][Next]_vars

\* the placeholder upgrade over every restored workspace of up to MaxItems
\* items: registrations, unregistrations, the reducer and replacePlaceholders
InitWorkspace == Activated /\ Restored(MaxItems, {"raw"})

NextWorkspace ==
    \/ \E gadget \in RawGadgets : registerGadget(gadget)
    \/ \E g \in GadgetIds : unregisterGadget(g)
    \/ replacePlaceholders
    \/ reduce

SpecWorkspace == InitWorkspace /\ [][NextWorkspace]_vars

(* ------------------- claims on replacePlaceholders --------------------- *)
InCall == pc \in {"pane", "scan", "ops"}
\* the identities of the items the workspace held when the call started
StartIds == UNION {ItemIds(rp.startPanes[p]) : p \in Panes}
\* a placeholder of the call-time workspace whose gadget was registered then
Replaceable(item) == isPlaceholder(item) /\ rp.startGadgets[item.gadgetId] # NoGadget
\* the items of a pane that this call created
NewItems(p) == {i \in 1..Len(panes[p]) : panes[p][i].id \notin StartIds}
\* the call-time placeholders of a pane that are no longer in it
Destroyed(p) ==
    {i \in 1..Len(rp.startPanes[p]) :
        /\ isPlaceholder(rp.startPanes[p][i])
        /\ rp.startPanes[p][i].id \notin ItemIds(panes[p])}

\* C1: in every state of a replacePlaceholders call (after each addItem,
\* destroyItem and setActiveItem) a pane that held an item when the call
\* started still holds one, and every placeholder already destroyed has its
\* real item in the pane: the real item is added before the placeholder goes.
C1_InsertBeforeDestroy ==
    (InCall \/ pc = "returned") =>
        \A p \in Panes :
            /\ rp.startPanes[p] # <<>> => panes[p] # <<>>
            /\ Cardinality(NewItems(p)) >= Cardinality(Destroyed(p))

\* C1 witness: between addItem and destroyItem of the only item of a pane
C1_Witness ==
    /\ pc = "ops"
    /\ Head(rp.ops).op = "destroyItem"
    /\ Len(rp.startPanes[rp.pane]) = 1
    /\ Len(panes[rp.pane]) = 2

\* C2: when the call returns, every pane has as many items as at call time;
\* at the position of each placeholder whose gadget is registered stands a
\* fresh real item of that gadget id, every other position holds the very
\* item it held, and no two items of the workspace share an identity.
C2_InPlace ==
    pc = "returned" =>
        /\ \A p \in Panes :
             /\ Len(panes[p]) = Len(rp.startPanes[p])
             /\ \A i \in 1..Len(rp.startPanes[p]) :
                  LET old == rp.startPanes[p][i]
                      new == panes[p][i]
                  IN  IF Replaceable(old)
                      THEN /\ new.kind = "gadget"
                           /\ new.gadgetId = old.gadgetId
                           /\ new.id \notin StartIds
                      ELSE new = old
        /\ \A p, q \in Panes : \A i \in 1..Len(panes[p]) : \A j \in 1..Len(panes[q]) :
             panes[p][i].id = panes[q][j].id => (p = q /\ i = j)

\* C2 witness: a pane of two adjacent placeholders, both replaced, the
\* second one in last position
C2_Witness ==
    /\ pc = "returned"
    /\ \E p \in Panes :
         /\ Len(rp.startPanes[p]) = 2
         /\ Replaceable(rp.startPanes[p][1])
         /\ Replaceable(rp.startPanes[p][2])

\* C3: when the call returns, a pane whose active item was a replaced
\* placeholder has the real item at that position active, and a pane whose
\* active item was any other item still has that item active.
C3_ActivePreserved ==
    pc = "returned" =>
        \A p \in Panes :
            LET k == IndexOf(rp.startPanes[p], rp.startActive[p])
            IN  IF k # 0 /\ Replaceable(rp.startPanes[p][k])
                THEN /\ Len(panes[p]) >= k
                     /\ activeItem[p] = panes[p][k].id
                     /\ panes[p][k].kind = "gadget"
                ELSE activeItem[p] = rp.startActive[p]

\* C3 witness: the active item was a replaced placeholder that had an item
\* before it in the pane
C3_Witness ==
    /\ pc = "returned"
    /\ \E p \in Panes :
         LET k == IndexOf(rp.startPanes[p], rp.startActive[p])
         IN  k = 2 /\ Replaceable(rp.startPanes[p][k])

\* C4: a replacePlaceholders call made after an earlier call returned, with
\* no change of the registry in between, changes no pane and no active item,
\* creates no pane item and emits no event, at any of its steps.
C4_Idempotent ==
    [][(stable /\ (InCall \/ pc' = "pane"))
          => UNCHANGED <<panes, activeItem, nextId, live, pending, isStopped, gadgets>>]_vars

\* C4 witness: a second call scanning a pane in which the first call replaced
\* one placeholder and left another, whose gadget is not registered
C4_Witness ==
    /\ stable
    /\ pc = "scan"
    /\ \E i, j \in 1..Len(panes[rp.pane]) :
         /\ panes[rp.pane][i].kind = "gadget"
         /\ isPlaceholder(panes[rp.pane][j])

(* --------------------- claims on the command layer --------------------- *)
OtherCommands ==
    {"openUri", "createPaneItem", "registerGadget", "unregisterGadget",
     "replacePlaceholders", "showGadget"}
Deactivate == [type |-> "DEACTIVATE"]

\* C5: once deactivate() has completed the stream, a call of any other
\* command mutates no pane, creates no pane item, delivers no event, asks the
\* host for nothing and returns nothing (the layer has no lifecycle error to
\* signal, so a no-op is the one policy left).
C5_NoOpAfterDeactivate ==
    [][(isStopped /\ call'.op \in OtherCommands)
          => /\ UNCHANGED <<panes, activeItem, nextId, live, pending, gadgets>>
             /\ hostOpen' = NoOpen
             /\ result' = NoItem]_vars

\* C6: a deactivate() call hands exactly one DEACTIVATE event to the sink
\* and then completes it; the stream is completed only by such a call, with
\* DEACTIVATE the last event delivered; after completion no event is
\* delivered any more (the reducer only consumes what was delivered before).
C6_StoppedQueue ==
    (isStopped /\ pending # <<>>) =>
        /\ pending[Len(pending)] = Deactivate
        /\ \A i \in 1..(Len(pending) - 1) : pending[i] # Deactivate
C6_Step ==
    /\ call'.op = "deactivate" =>
          /\ call'.emitted = <<Deactivate>>
          /\ isStopped'
    /\ (~isStopped /\ isStopped') =>
          /\ call'.op = "deactivate"
          /\ pending' = Append(pending, Deactivate)
    /\ isStopped =>
          /\ isStopped'
          /\ pending' = pending \/ (pending # <<>> /\ pending' = Tail(pending))
\* C6: the DEACTIVATE event is the last one delivered, in every state and step
C6_DeactivateLast == [](C6_StoppedQueue) /\ [][C6_Step]_vars

\* C6 witness: registerGadget called after deactivate(); the queue still
\* ends with the DEACTIVATE event
C6_Witness ==
    /\ isStopped
    /\ call.op = "registerGadget"
    /\ pending # <<>>
    /\ pending[Len(pending)] = Deactivate

\* C7: a createPaneItem(gadgetId) call made while gadgetId is absent from the
\* registry returns no item, hands no event to the sink and changes neither
\* the registry, the event queue, the panes, nor the set of created
\* components and notification channels.
C7_AbsentNoMutation ==
    [][(call'.op = "createPaneItem" /\ gadgets[call'.arg] = NoGadget)
          => /\ result' = NoItem
             /\ call'.emitted = <<>>
             /\ UNCHANGED <<gadgets, pending, isStopped, panes, activeItem, nextId,
                            live, calls>>]_vars

\* C7 witness: createPaneItem of an unregistered gadget while another gadget
\* is registered
C7_Witness ==
    /\ call.op = "createPaneItem"
    /\ gadgets[call.arg] = NoGadget
    /\ result = NoItem
    /\ \E g \in GadgetIds : gadgets[g] # NoGadget

\* C9: createPaneItem(g) returns an item exactly when g is in the registry as
\* the reducer left it before the call, and replacePlaceholders replaces the
\* placeholder it examines exactly when its gadget id is in the registry
\* then.
C9_CreateSeesRegistry ==
    call.op = "createPaneItem" =>
        /\ (result # NoItem) <=> (gadgets[call.arg] # NoGadget)
        /\ result # NoItem => result.gadgetId = call.arg
C9_ExamineSeesRegistry ==
    (pc = "scan" /\ rp.index >= 0 /\ isPlaceholder(rp.items[rp.index + 1]))
        => ((pc' = "ops") <=> (gadgets[rp.items[rp.index + 1].gadgetId] # NoGadget))
\* C9: every lookup sees the registry as it is at that moment
C9_NoCaching == [](C9_CreateSeesRegistry) /\ [][C9_ExamineSeesRegistry]_vars

\* C9 witness: a gadget was registered and an item created for it, then
\* every gadget was unregistered and createPaneItem returned no item
C9_Witness ==
    /\ call.op = "createPaneItem"
    /\ result = NoItem
    /\ live # <<>>
    /\ \A g \in GadgetIds : gadgets[g] = NoGadget

\* C10: registerGadget(gadget) hands the sink exactly one REGISTER_GADGET
\* event whose payload is the gadget with its URI attached and every other
\* field kept, unregisterGadget(id) exactly one UNREGISTER_GADGET event whose
\* payload is the id; while the stream is open the event is delivered once;
\* the registry changes only in a step of the reducer.
C10_Emitted ==
    /\ call.op = "registerGadget" =>
          /\ Len(call.emitted) = 1
          /\ call.emitted[1].type = "REGISTER_GADGET"
          /\ call.emitted[1].payload.gadget = wrapGadget(call.arg)
          /\ call.emitted[1].payload.gadget.uri = format(call.arg.gadgetId)
          /\ call.emitted[1].payload.gadget.gadgetId = call.arg.gadgetId
          /\ call.emitted[1].payload.gadget.hasDeserializeState
               = call.arg.hasDeserializeState
    /\ call.op = "unregisterGadget" =>
          /\ Len(call.emitted) = 1
          /\ call.emitted[1].type = "UNREGISTER_GADGET"
          /\ call.emitted[1].payload.gadgetId = call.arg
C10_Step ==
    /\ gadgets' # gadgets => call'.op = "reduce"
    /\ (~isStopped /\ call'.op \in {"registerGadget", "unregisterGadget"})
          => pending' = pending \o call'.emitted
\* C10: one event per call with the stated payload; only the reducer writes
\* the registry
C10_EventSourced == [](C10_Emitted) /\ [][C10_Step]_vars

\* C10 witness: registerGadget has emitted its event and the registry does
\* not hold the gadget yet
C10_Witness ==
    /\ call.op = "registerGadget"
    /\ gadgets[call.arg.gadgetId] = NoGadget
    /\ pending # <<>>
    /\ pending[Len(pending)] = call.emitted[1]

(* ------------------ the notification channel of pane items ------------- *)
\* the registry after both gadgets were registered and reduced
AllRegistered ==
    [g \in GadgetIds |-> wrapGadget(CHOOSE r \in RawGadgets : r.gadgetId = g)]

\* the pane items of the notification specification
NotifyItems == {1, 2}

\* two pane items created by createPaneItem for registered gadgets, in an
\* empty workspace: their components then change state, notify and are
\* subscribed to
InitNotify ==
    /\ gadgets = AllRegistered
    /\ pending = <<>>
    /\ isStopped = FALSE
    /\ panes = [p \in Panes |-> <<>>]
    /\ activeItem = [p \in Panes |-> 0]
    /\ nextId = Cardinality(NotifyItems) + 1
    /\ live = [id \in NotifyItems |-> newComponent("null")]
    /\ calls = <<>>
    /\ result = NoItem
    /\ hostOpen = NoOpen
    /\ call = NoCall
    /\ pc = "idle"
    /\ rp = NoLocals
    /\ stable = FALSE
    /\ opening = <<>>

NextNotify ==
    \/ \E id \in DOMAIN live : \E value \in ComponentStates : setState(id, value)
    \/ \E id \in DOMAIN live : subscribe(id)
    \/ \E id \in DOMAIN live : \E k \in 1..MaxSubs : dispose(id, k)
    \/ \E id \in DOMAIN live : notify(id)

SpecNotify == InitNotify /\ [][NextNotify]_vars

\* C8: every subscription still in place on a pane item has had its callback
\* run once for each notify() of that item made since it subscribed, whatever
\* the states published were: n notify() calls, n invocations.
C8_NoDeduplication ==
    \A id \in DOMAIN live :
        \A k \in 1..Len(live[id].observers) :
            LET o == live[id].observers[k]
            IN  calls[o.sub] = live[id].notified - o.since

\* C8 witness: two notify() calls in a row with the same component state,
\* each delivered to two subscribers
C8_Witness ==
    \E id \in DOMAIN live :
        LET c == live[id]
        IN  /\ c.notified >= 2
            /\ Len(c.published) >= 2
            /\ c.published[Len(c.published)] = c.published[Len(c.published) - 1]
            /\ Len(c.observers) = 2
            /\ \A k \in 1..2 : c.observers[k].since = 0 /\ calls[c.observers[k].sub] >= 2

(* ------------------------------ openUri -------------------------------- *)
\* C11: an openUri(uri) call whose URI does not parse as a gadget URI returns
\* no item, hands no event to the sink and changes nothing, whatever the
\* registry holds; a call whose URI parses returns what createPaneItem of
\* the parsed gadget id returns: a fresh item of that gadget when it is
\* registered, no item when it is not; no openUri call emits an event.
C11_Unparseable ==
    (call'.op = "openUri" /\ parse(call'.arg) = NoMatch)
        => /\ result' = NoItem
           /\ hostOpen' = NoOpen
           /\ UNCHANGED <<gadgets, pending, isStopped, panes, activeItem, nextId,
                          live, calls>>
C11_Delegates ==
    (call'.op = "openUri" /\ parse(call'.arg) # NoMatch)
        => LET gadgetId == parse(call'.arg).gadgetId
           IN  /\ result' = createdItem(gadgetId, "null")
               /\ (result' = NoItem) <=> (gadgets[gadgetId] = NoGadget)
               /\ result' # NoItem =>
                     /\ result'.gadgetId = gadgetId
                     /\ result'.id \notin DOMAIN live
                     /\ DOMAIN live' = DOMAIN live \cup {result'.id}
               /\ result' = NoItem => UNCHANGED <<nextId, live>>
               /\ UNCHANGED <<gadgets, pending, isStopped, panes, activeItem, calls>>
C11_OpenUri ==
    [][/\ C11_Unparseable
       /\ C11_Delegates
       /\ call'.op = "openUri" => call'.emitted = <<>>]_vars

\* C11 witness: openUri of a URI of another scheme whose path is the id of a
\* registered gadget has returned no item
C11_Witness ==
    /\ call.op = "openUri"
    /\ parse(call.arg) = NoMatch
    /\ call.arg[2] \in GadgetIds
    /\ gadgets[call.arg[2]] # NoGadget
    /\ result = NoItem

(* ---------------------- showGadget and the host ------------------------ *)
\* item.getURI(): a gadget pane item carries the URI wrapGadget attached to
\* its gadget; no other item of the model has a gadget URI
getURI(item) == IF item.kind = "gadget" THEN format(item.gadgetId) ELSE <<>>

\* pane.itemForURI(uri) over every pane: the positions that hold an item of
\* that URI
paneForURI(uri) ==
    {<<p, i>> \in Panes \X (1..(MaxItems + MaxLive)) :
        i <= Len(panes[p]) /\ getURI(panes[p][i]) = uri}

\* atom.workspace.open(uri, {searchAllPanes: true}) takes up the request of
\* showGadget: an item of that URI found in a pane is activated; when none
\* is found the opener (openUri) builds the item, which the host adds to a
\* pane when the promise of open resolves
open ==
    /\ Ready
    /\ hostOpen # NoOpen
    /\ hostOpen' = NoOpen
    /\ LET found == paneForURI(hostOpen.uri)
           item == createdItem(parse(hostOpen.uri).gadgetId, "null")
       IN  IF hostOpen.searchAllPanes /\ found # {}
           THEN /\ \E f \in found :
                     activeItem' = [activeItem EXCEPT ![f[1]] = panes[f[1]][f[2]].id]
                /\ UNCHANGED <<nextId, live, opening>>
           ELSE /\ item # NoItem => Cardinality(DOMAIN live) < MaxLive
                /\ created(parse(hostOpen.uri).gadgetId, "null")
                /\ opening' = IF item = NoItem THEN opening ELSE Append(opening, item)
                /\ UNCHANGED activeItem
    /\ UNCHANGED <<gadgets, pending, isStopped, panes, calls, result, call,
                   pc, rp, stable>>

\* the promise of the oldest unresolved open resolves: the host adds the
\* item to a pane and activates it
openResolved ==
    /\ Ready
    /\ opening # <<>>
    /\ opening' = Tail(opening)
    /\ \E p \in Panes :
         /\ panes' = [panes EXCEPT ![p] = Append(@, Head(opening))]
         /\ activeItem' = [activeItem EXCEPT ![p] = Head(opening).id]
    /\ UNCHANGED <<gadgets, pending, isStopped, nextId, live, calls, result,
                   hostOpen, call, pc, rp, stable>>

\* showGadget with the host it asks: gadgets register, showGadget is called
\* (also again before an earlier open has resolved) and the host opens
InitShow == Activated /\ Restored(1, {"raw"})

NextShow ==
    \/ \E gadget \in RawGadgets : registerGadget(gadget)
    \/ reduce
    \/ \E g \in GadgetIds : hostOpen = NoOpen /\ showGadget(g)
    \/ open
    \/ openResolved

SpecShow == InitShow /\ [][NextShow]_vars

\* the gadget pane items of a gadget that the workspace holds
Shown(gadgetId) ==
    {<<p, i>> \in Panes \X (1..(MaxItems + MaxLive)) :
        /\ i <= Len(panes[p])
        /\ panes[p][i].kind = "gadget"
        /\ panes[p][i].gadgetId = gadgetId}

\* C12: a showGadget(gadgetId) call asks the host to open the URI of the
\* gadget with searchAllPanes set and hands no event to the sink; whatever
\* the sequence of showGadget calls, the workspace holds at most one pane
\* item of a gadget created by them, and an open taken up while an item of
\* the gadget is in a pane creates no item.
C12_Requested ==
    (call'.op = "showGadget" /\ hostOpen = NoOpen /\ opening' = opening) =>
        /\ hostOpen' = [uri |-> format(call'.arg), searchAllPanes |-> TRUE]
        /\ call'.emitted = <<>>
        /\ UNCHANGED <<pending, nextId, live, panes>>
C12_FoundNotCreated ==
    (hostOpen # NoOpen /\ hostOpen' = NoOpen
       /\ Shown(parse(hostOpen.uri).gadgetId) # {})
        => UNCHANGED <<nextId, live, opening, panes>>
C12_AtMostOne == \A g \in GadgetIds : Cardinality(Shown(g)) <= 1
C12_ShowOnce ==
    [](C12_AtMostOne) /\ [][C12_Requested /\ C12_FoundNotCreated]_vars

(* -------------------- the scan of replacePlaceholders ------------------ *)
\* the item of the call-time workspace with a given identity
StartItem(id) ==
    LET p == CHOOSE q \in Panes : id \in ItemIds(rp.startPanes[q])
    IN  rp.startPanes[p][IndexOf(rp.startPanes[p], id)]
\* the pane items this call has created so far
CreatedByCall == DOMAIN live \ StartIds
\* the items examined so far that were placeholders of a registered gadget
ReplacedByCall ==
    {k \in 1..Len(rp.examined) :
        rp.examined[k] \in StartIds /\ Replaceable(StartItem(rp.examined[k]))}

\* C13: in every state of a replacePlaceholders call no item has been
\* examined twice, every item examined was in its pane when the scan of
\* that pane started (none was inserted by this call), and the call has
\* created exactly one real item for each placeholder it replaced; while a
\* pane is scanned the items examined are those behind the loop index, and
\* when the call returns every item of the call-time workspace has been
\* examined.
C13_ExaminedOnce ==
    (InCall \/ pc = "returned") =>
        /\ \A j, k \in 1..Len(rp.examined) :
             rp.examined[j] = rp.examined[k] => j = k
        /\ \A k \in 1..Len(rp.examined) :
             /\ rp.examined[k] \in StartIds
             /\ rp.examined[k] \notin CreatedByCall
        /\ Cardinality(CreatedByCall) = Cardinality(ReplacedByCall)
        /\ pc \in {"scan", "ops"} =>
             /\ rp.items = rp.startPanes[rp.pane]
             /\ \A i \in 1..Len(rp.items) :
                  (\E k \in 1..Len(rp.examined) : rp.examined[k] = rp.items[i].id)
                     <=> (i > rp.index + 1 \/ (pc = "ops" /\ i = rp.index + 1))
        /\ pc = "returned" =>
             {rp.examined[k] : k \in 1..Len(rp.examined)} = StartIds

\* C13 witness: the call has returned after replacing two placeholders of
\* one pane, the second inserted while the first was still to be examined
C13_Witness ==
    /\ pc = "returned"
    /\ Cardinality(CreatedByCall) >= 2
    /\ \E p \in Panes :
         /\ Len(rp.startPanes[p]) >= 2
         /\ \A i \in 1..2 : Replaceable(rp.startPanes[p][i])

(* ---------------- placeholders of unregistered gadgets ----------------- *)
\* the placeholders of a pane whose gadget a registry does not hold
Waiting(items, registry) ==
    {i \in 1..Len(items) :
        isPlaceholder(items[i]) /\ registry[items[i].gadgetId] = NoGadget}
\* two items keep their order in a pane from one sequence of items to another
SameOrder(before, after, a, b) ==
    (IndexOf(before, a) < IndexOf(before, b)) <=> (IndexOf(after, a) < IndexOf(after, b))

\* C14, every step: a placeholder whose gadget the registry does not hold is
\* still in its pane, the very same item, after any step of any command or
\* of the reducer, in the same order with every other item that stays; a
\* step outside replacePlaceholders leaves every pane and active item as
\* they are.
C14_Step ==
    /\ \A p \in Panes : \A i \in Waiting(panes[p], gadgets) :
         LET item == panes[p][i]
         IN  /\ IndexOf(panes'[p], item.id) # 0
             /\ panes'[p][IndexOf(panes'[p], item.id)] = item
             /\ \A b \in ItemIds(panes[p]) \cap ItemIds(panes'[p]) :
                  SameOrder(panes[p], panes'[p], item.id, b)
    /\ (~InCall /\ pc' # "pane") => UNCHANGED <<panes, activeItem>>
\* C14, every call: when replacePlaceholders returns, a placeholder whose
\* gadget was not registered stands in the same pane at the same position,
\* and is the active item of its pane exactly when it was at call time.
C14_AtReturn ==
    pc = "returned" =>
        \A p \in Panes : \A i \in Waiting(rp.startPanes[p], rp.startGadgets) :
            LET item == rp.startPanes[p][i]
            IN  /\ Len(panes[p]) >= i
                /\ panes[p][i] = item
                /\ (activeItem[p] = item.id) <=> (rp.startActive[p] = item.id)
C14_Untouched == [](C14_AtReturn) /\ [][C14_Step]_vars

\* C14 witness: a call has returned that replaced a placeholder and left
\* next to it, in the same pane, the active placeholder of a gadget that is
\* not registered
C14_Witness ==
    /\ pc = "returned"
    /\ \E p \in Panes : \E i \in Waiting(panes[p], gadgets) :
         /\ activeItem[p] = panes[p][i].id
         /\ \E j \in 1..Len(rp.startPanes[p]) : Replaceable(rp.startPanes[p][j])

(* ------------------------- eventual upgrade ---------------------------- *)
\* a workspace restored with placeholders only; the caller invokes
\* replacePlaceholders again and again (once per package activation), and a
\* call that has started runs to its return
InitUpgrade ==
    /\ InitWorkspace
    /\ \A p \in Panes : \A i \in 1..Len(panes[p]) : isPlaceholder(panes[p][i])

SpecUpgrade ==
    InitUpgrade /\ [][NextWorkspace]_vars /\ WF_vars(replacePlaceholders)

\* the placeholders of a gadget that the workspace holds
PlaceholdersOf(gadgetId) ==
    {<<p, i>> \in Panes \X (1..(2 * MaxItems)) :
        /\ i <= Len(panes[p])
        /\ isPlaceholder(panes[p][i])
        /\ panes[p][i].gadgetId = gadgetId}

\* C15, every call: when a replacePlaceholders call returns, no pane holds a
\* placeholder of a gadget that the registry held when the call was made.
C15_AtReturn ==
    pc = "returned" =>
        \A g \in GadgetIds : rp.startGadgets[g] # NoGadget => PlaceholdersOf(g) = {}
\* C15, eventually: with replacePlaceholders invoked again and again, a
\* gadget that from some moment on stays registered has, from some moment
\* on, no placeholder left in any pane.
C15_Eventually ==
    \A g \in GadgetIds :
        <>[](gadgets[g] # NoGadget) => <>[](PlaceholdersOf(g) = {})
C15_EventualUpgrade == [](C15_AtReturn) /\ C15_Eventually

\* C15 witness: a call has returned that found a placeholder of a registered
\* gadget in each of the two panes and left none
C15_Witness ==
    /\ pc = "returned"
    /\ \E g \in GadgetIds :
         /\ rp.startGadgets[g] # NoGadget
         /\ PlaceholdersOf(g) = {}
         /\ \A p \in Panes : \E i \in 1..Len(rp.startPanes[p]) :
              /\ isPlaceholder(rp.startPanes[p][i])
              /\ rp.startPanes[p][i].gadgetId = g

(* --------------------- the state of the real item ---------------------- *)
\* the placeholder upgrade over a workspace restored with one item, a
\* placeholder carrying any raw state (null or a blob) of either gadget
InitRestore == Activated /\ Restored(1, RawStates)

SpecRestore == InitRestore /\ [][NextWorkspace]_vars

\* C16: when replacePlaceholders returns, the real item standing where a
\* replaced placeholder stood was created with deserializeState(raw) as its
\* initial state when the gadget has a deserializeState hook, and with the
\* raw state of the placeholder itself (null included) when it has none;
\* its component starts in that state.
C16_InitialState ==
    pc = "returned" =>
        \A p \in Panes : \A i \in 1..Len(rp.startPanes[p]) :
            LET old == rp.startPanes[p][i]
                new == panes[p][i]
                hook == rp.startGadgets[old.gadgetId].hasDeserializeState
            IN  Replaceable(old) =>
                  /\ new.kind = "gadget"
                  /\ hook => new.initialState = deserializeState(old.initialState)
                  /\ ~hook => new.initialState = old.initialState
                  /\ new.initialState \in RawStates <=> ~hook
                  /\ live[new.id].state = new.initialState

\* C16 witness: a placeholder with a null raw state, of a gadget without the
\* hook, was replaced by an item whose initial state is null
C16_Witness ==
    /\ pc = "returned"
    /\ \E p \in Panes : \E i \in 1..Len(rp.startPanes[p]) :
         /\ Replaceable(rp.startPanes[p][i])
         /\ ~rp.startGadgets[rp.startPanes[p][i].gadgetId].hasDeserializeState
         /\ rp.startPanes[p][i].initialState = "null"
         /\ panes[p][i].kind = "gadget"
         /\ panes[p][i].initialState = "null"

(* ----------------------- delivery of notify() -------------------------- *)
\* one pane item created by createPaneItem: its component changes state,
\* notifies and is subscribed to
InitDelivery ==
    /\ gadgets = AllRegistered
    /\ pending = <<>>
    /\ isStopped = FALSE
    /\ panes = [p \in Panes |-> <<>>]
    /\ activeItem = [p \in Panes |-> 0]
    /\ nextId = 2
    /\ live = (1 :> newComponent("null"))
    /\ calls = <<>>
    /\ result = NoItem
    /\ hostOpen = NoOpen
    /\ call = NoCall
    /\ pc = "idle"
    /\ rp = NoLocals
    /\ stable = FALSE
    /\ opening = <<>>

SpecDelivery == InitDelivery /\ [][NextNotify]_vars

\* the step is a notify() of pane item id
Notified(id) ==
    /\ id \in DOMAIN live
    /\ live'[id].notified = live[id].notified + 1

\* C17: a notify() of a pane item has run, when it returns, the callback of
\* every subscriber subscribed to that item at that moment exactly once, in
\* the order in which they subscribed; the callback of a subscription runs
\* in no other step (nothing is buffered for later), and a subscription
\* starts with no invocation, whatever was notified before it was made.
C17_Step ==
    /\ \A id \in DOMAIN live : Notified(id) =>
          LET observers == live[id].observers
              order == live'[id].delivered
          IN  /\ Len(order) = Len(observers)
              /\ \A k \in 1..Len(order) : order[k] = observers[k].sub
              /\ \A j, k \in 1..Len(order) : j < k => order[j] < order[k]
              /\ \A s \in 1..Len(calls) :
                   calls'[s] = calls[s]
                                 + (IF \E k \in 1..Len(observers) : observers[k].sub = s
                                    THEN 1 ELSE 0)
    /\ (\A id \in DOMAIN live : ~Notified(id)) =>
          /\ \A s \in 1..Len(calls) : calls'[s] = calls[s]
          /\ \A id \in DOMAIN live : live'[id].delivered = live[id].delivered
    /\ Len(calls') > Len(calls) =>
          /\ Len(calls') = Len(calls) + 1
          /\ calls'[Len(calls')] = 0
C17_SynchronousDelivery == [][C17_Step]_vars

\* C17 witness: a notify() has run two callbacks in subscription order, the
\* second of a subscriber that subscribed after an earlier notify() and has
\* been invoked fewer times than the first
C17_Witness ==
    \E id \in DOMAIN live :
        LET c == live[id]
        IN  /\ Len(c.delivered) = 2
            /\ Len(c.observers) = 2
            /\ c.delivered = <<c.observers[1].sub, c.observers[2].sub>>
            /\ c.observers[1].since = 0
            /\ c.observers[2].since >= 1
            /\ calls[c.observers[2].sub] < calls[c.observers[1].sub]

(* ---------------------- one channel per pane item ---------------------- *)
\* createPaneItem is called again and again while both gadgets, or g1 alone,
\* are registered; the items it returns are subscribed to and notify
InitChannels ==
    /\ gadgets \in {AllRegistered, [AllRegistered EXCEPT !["g2"] = NoGadget]}
    /\ pending = <<>>
    /\ isStopped = FALSE
    /\ panes = [p \in Panes |-> <<>>]
    /\ activeItem = [p \in Panes |-> 0]
    /\ nextId = 1
    /\ live = <<>>
    /\ calls = <<>>
    /\ result = NoItem
    /\ hostOpen = NoOpen
    /\ call = NoCall
    /\ pc = "idle"
    /\ rp = NoLocals
    /\ stable = FALSE
    /\ opening = <<>>

NextChannels ==
    \/ \E g \in GadgetIds : createPaneItem(g, "null")
    \/ \E id \in DOMAIN live : subscribe(id)
    \/ \E id \in DOMAIN live : notify(id)

SpecChannels == InitChannels /\ [][NextChannels]_vars

\* the subscriptions made through the subscribe of a pane item
SubscribedThrough(id) == invoked(live[id].observers)

\* C18, every state: no subscription is held by the channels of two pane
\* items.
C18_Disjoint ==
    \A i, j \in DOMAIN live :
        i # j => SubscribedThrough(i) \cap SubscribedThrough(j) = {}
\* C18, every step: a createPaneItem call that returns an item has built one
\* new channel, with no subscriber and nothing published, and has touched
\* no channel of an earlier item; a notify() of an item runs no callback
\* subscribed through another item.
C18_Step ==
    /\ DOMAIN live' # DOMAIN live =>
          /\ result' # NoItem
          /\ DOMAIN live' = DOMAIN live \cup {result'.id}
          /\ result'.id \notin DOMAIN live
          /\ live'[result'.id].observers = <<>>
          /\ live'[result'.id].notified = 0
          /\ live'[result'.id].published = <<>>
          /\ \A id \in DOMAIN live : live'[id] = live[id]
          /\ calls' = calls
    /\ \A id \in DOMAIN live : Notified(id) =>
          /\ \A s \in 1..Len(calls) :
               s \notin SubscribedThrough(id) => calls'[s] = calls[s]
          /\ \A other \in DOMAIN live \ {id} : live'[other] = live[other]
C18_OwnChannel == [](C18_Disjoint) /\ [][C18_Step]_vars

\* C18 witness: two pane items created for the same gadget (the only one
\* registered), each with a subscriber; notify() of the second item has run
\* its subscriber's callback and not the callback of the first item's
C18_Witness ==
    /\ gadgets["g2"] = NoGadget
    /\ \E i, j \in DOMAIN live :
         /\ i # j
         /\ Len(live[i].observers) = 1
         /\ Len(live[j].observers) = 1
         /\ live[i].notified = 0
         /\ live[j].notified = 1
         /\ calls[live[i].observers[1].sub] = 0
         /\ calls[live[j].observers[1].sub] = 1

(* ----------------- outline labels (OutlineViewHelpers) ------------------ *)
\* a text is a sequence of characters; a token is a text tagged with its kind
keyword(text) == [kind |-> "keyword", value |-> text]
className(text) == [kind |-> "class-name", value |-> text]
method(text) == [kind |-> "method", value |-> text]
param(text) == [kind |-> "param", value |-> text]
whitespace(text) == [kind |-> "whitespace", value |-> text]
string(text) == [kind |-> "string", value |-> text]
plain(text) == [kind |-> "plain", value |-> text]

\* an optional field of a cursor node: absent (null or undefined) or a value
Absent == [present |-> FALSE, value |-> <<>>]
Present(value) == [present |-> TRUE, value |-> value]

\* display names of the class-like cursor kinds
CLASS_KIND_NAMES ==
    [kind \in {"STRUCT_DECL", "UNION_DECL", "CLASS_DECL", "ENUM_DECL",
               "OBJC_INTERFACE_DECL", "OBJC_CATEGORY_DECL", "OBJC_PROTOCOL_DECL",
               "OBJC_IMPLEMENTATION_DECL", "OBJC_CATEGORY_IMPL_DECL",
               "CLASS_TEMPLATE", "CLASS_TEMPLATE_PARTIAL_SPECIALIZATION",
               "NAMESPACE"} |->
        CASE kind = "STRUCT_DECL" -> <<"struct">>
          [] kind = "UNION_DECL" -> <<"union">>
          [] kind = "ENUM_DECL" -> <<"enum">>
          [] kind \in {"OBJC_INTERFACE_DECL", "OBJC_CATEGORY_DECL"} -> <<"@interface">>
          [] kind = "OBJC_PROTOCOL_DECL" -> <<"@protocol">>
          [] kind \in {"OBJC_IMPLEMENTATION_DECL", "OBJC_CATEGORY_IMPL_DECL"}
               -> <<"@implementation">>
          [] kind = "NAMESPACE" -> <<"namespace">>
          [] OTHER -> <<"class">>]

\* types longer than this have their template arguments collapsed
LONG_TYPE_LENGTH == 50

\* String.prototype.indexOf / lastIndexOf / substring, indices from 0
indexOf(text, ch) ==
    IF \E i \in 1..Len(text) : text[i] = ch
    THEN (CHOOSE i \in 1..Len(text) :
             text[i] = ch /\ \A j \in 1..(i - 1) : text[j] # ch) - 1
    ELSE -1
lastIndexOf(text, ch) ==
    IF \E i \in 1..Len(text) : text[i] = ch
    THEN (CHOOSE i \in 1..Len(text) :
             text[i] = ch /\ \A j \in (i + 1)..Len(text) : text[j] # ch) - 1
    ELSE -1
substring(text, start, end) == SubSeq(text, start + 1, end)

tokenizeType(type) ==
    LET openIndex == indexOf(type, "<")
        closeIndex == lastIndexOf(type, ">")
    IN  IF Len(type) > LONG_TYPE_LENGTH /\ openIndex # -1 /\ closeIndex # -1
        THEN <<plain(substring(type, 0, openIndex + 1)),
               string(<<"...">>),
               plain(substring(type, closeIndex, Len(type)))>>
        ELSE <<plain(type)>>

\* params.forEach: a separator before every parameter but the first
paramTokens(params) ==
    LET pushed[k \in 0..Len(params)] ==
          IF k = 0 THEN <<>>
          ELSE (IF Len(pushed[k - 1]) > 0
                THEN Append(pushed[k - 1], plain(<<", ">>))
                ELSE pushed[k - 1]) \o <<param(params[k])>>
    IN  pushed[Len(params)]
\* the <tparams> group, empty when there is no template parameter
tparamTokens(tparams) ==
    LET pushed[k \in 0..Len(tparams.value)] ==
          IF k = 0 THEN <<plain(<<"<">>)>>
          ELSE (IF Len(pushed[k - 1]) > 1
                THEN Append(pushed[k - 1], plain(<<", ">>))
                ELSE pushed[k - 1]) \o <<plain(tparams.value[k])>>
    IN  IF tparams.present /\ Len(tparams.value) > 0
        THEN Append(pushed[Len(tparams.value)], plain(<<">">>))
        ELSE <<>>

\* a label that looks at params before children
tokenizeCursor_paramsFirst(cursor) ==
    IF cursor.params.present
    THEN <<method(cursor.name)>> \o tparamTokens(cursor.tparams) \o <<plain(<<"(">>)>>
           \o paramTokens(cursor.params.value) \o <<plain(<<")">>)>>
    ELSE IF cursor.children.present
    THEN <<keyword(IF cursor.cursor_kind \in DOMAIN CLASS_KIND_NAMES
                   THEN CLASS_KIND_NAMES[cursor.cursor_kind] ELSE <<"class">>),
           whitespace(<<" ">>),
           className(cursor.name)>>
    ELSE IF cursor.cursor_type.present
    THEN tokenizeType(cursor.cursor_type.value)
           \o <<whitespace(<<" ">>), className(cursor.name)>>
    ELSE <<plain(cursor.name)>>

tokenizeCursor(cursor) ==
    IF cursor.children.present
    THEN <<keyword(IF cursor.cursor_kind \in DOMAIN CLASS_KIND_NAMES
                   THEN CLASS_KIND_NAMES[cursor.cursor_kind] ELSE <<"class">>),
           whitespace(<<" ">>),
           className(cursor.name)>>
    ELSE IF cursor.params.present
    THEN <<method(cursor.name)>> \o tparamTokens(cursor.tparams) \o <<plain(<<"(">>)>>
           \o paramTokens(cursor.params.value) \o <<plain(<<")">>)>>
    ELSE IF cursor.cursor_type.present
    THEN tokenizeType(cursor.cursor_type.value)
           \o <<whitespace(<<" ">>), className(cursor.name)>>
    ELSE <<plain(cursor.name)>>

RECURSIVE outlineFromClangOutline(_)
outlineFromClangOutline(outline) ==
    [k \in 1..Len(outline) |->
        [tokenizedText |-> tokenizeCursor(outline[k]),
         representativeName |-> outline[k].name,
         startPosition |-> [row |-> outline[k].extent.start.line,
                            column |-> outline[k].extent.start.column],
         endPosition |-> [row |-> outline[k].extent.end.line,
                          column |-> outline[k].extent.end.column],
         children |-> IF outline[k].children.present
                      THEN outlineFromClangOutline(outline[k].children.value)
                      ELSE <<>>]]

\* OutlineViewHelpers.getOutline resumes with the outline libclang answered
\* and returns the outline trees, or null for no outline
getOutline ==
    /\ pc = "idle"
    /\ call.op = "await getOutline"
    /\ Called("getOutline", call.arg, <<>>)
    /\ Returns(IF call.arg.present
               THEN Present([outlineTrees |-> outlineFromClangOutline(call.arg.value)])
               ELSE Absent,
               NoOpen)
    /\ UNCHANGED <<opening, gadgets, pending, isStopped, panes, activeItem,
                   nextId, live, calls, stable>>

(* the cursor trees libclang may answer *)
\* parameters and template parameters per callable
MaxParams == 2
\* characters on either side of the padding of a type
MaxCore == 2

Extent ==
    [start |-> [line |-> 1, column |-> 0], end |-> [line |-> 2, column |-> 1]]
Cursor(name, kind, children, params, tparams, type) ==
    [name |-> name, extent |-> Extent, cursor_kind |-> kind, children |-> children,
     params |-> params, tparams |-> tparams, cursor_type |-> type]
\* a node with a name only
Leaf == Cursor(<<"m">>, "FIELD_DECL", Absent, Absent, Absent, Absent)

CursorKinds == DOMAIN CLASS_KIND_NAMES \cup {"FUNCTION_DECL", "VAR_DECL"}
\* n names: the k-th is the letter written k times
Names(letter, n) == [k \in 1..n |-> [j \in 1..k |-> letter]]
ParamLists(letter) == {Absent} \cup {Present(Names(letter, n)) : n \in 0..MaxParams}
\* n characters of padding
Padding(n) == [k \in 1..n |-> "x"]
Cores == UNION {[1..n -> {"<", ">", "a"}] : n \in 0..MaxCore}
\* types on both sides of LONG_TYPE_LENGTH, with angle brackets in any order
Types ==
    {a \o Padding(n) \o b :
        a \in Cores, b \in Cores,
        n \in {0, LONG_TYPE_LENGTH - MaxCore - 1, LONG_TYPE_LENGTH - MaxCore}}
ShortType == <<"i", "n", "t">>
LongType == <<"v", "<">> \o Padding(LONG_TYPE_LENGTH) \o <<">", "&">>

\* nodes of every shape: each optional field absent or present
ShapedCursors ==
    {Cursor(<<"f">>, kind, children, params, tparams, type) :
        kind \in CursorKinds,
        children \in {Absent, Present(<<>>), Present(<<Leaf>>)},
        params \in ParamLists("p"),
        tparams \in ParamLists("T"),
        type \in {Absent, Present(ShortType), Present(LongType)}}
\* nodes that have a type only
TypedCursors ==
    {Cursor(<<"v">>, "VAR_DECL", Absent, Absent, Absent, Present(type)) : type \in Types}
ClangOutlines ==
    {Absent} \cup {Present(<<cursor>>) : cursor \in ShapedCursors \cup TypedCursors}

\* getOutline(editor) was called and awaits libclang's answer
InitOutline ==
    /\ call \in {[op |-> "await getOutline", arg |-> outline, emitted |-> <<>>] :
                   outline \in ClangOutlines}
    /\ gadgets = EmptyRegistry
    /\ pending = <<>>
    /\ isStopped = FALSE
    /\ panes = [p \in Panes |-> <<>>]
    /\ activeItem = [p \in Panes |-> 0]
    /\ nextId = 1
    /\ live = <<>>
    /\ calls = <<>>
    /\ result = NoItem
    /\ hostOpen = NoOpen
    /\ pc = "idle"
    /\ rp = NoLocals
    /\ stable = FALSE
    /\ opening = <<>>

NextOutline == getOutline

SpecOutline == InitOutline /\ [][NextOutline]_vars

\* getOutline has returned the trees of an outline
Labelled == call.op = "getOutline" /\ call.arg.present
\* the first node of that outline and the label it was given
LabelCursor == call.arg.value[1]
Label == result.value.outlineTrees[1].tokenizedText

\* C19, a node with children: keyword by kind, space, name
C19_ClassLike(cursor, label) ==
    /\ Len(label) = 3
    /\ label[1].kind = "keyword"
    /\ cursor.cursor_kind = "STRUCT_DECL" => label[1].value = <<"struct">>
    /\ cursor.cursor_kind \in DOMAIN CLASS_KIND_NAMES
          => label[1].value = CLASS_KIND_NAMES[cursor.cursor_kind]
    /\ cursor.cursor_kind \notin DOMAIN CLASS_KIND_NAMES
          => label[1].value = <<"class">>
    /\ label[2] = whitespace(<<" ">>)
    /\ label[3] = className(cursor.name)
\* C19, a node with params: name, <tparams> when there are any, (params)
C19_Callable(cursor, label) ==
    LET params == cursor.params.value
        tparams == IF cursor.tparams.present THEN cursor.tparams.value ELSE <<>>
        t == IF tparams = <<>> THEN 0 ELSE 2 * Len(tparams) + 1
        n == IF params = <<>> THEN 0 ELSE 2 * Len(params) - 1
    IN  /\ Len(label) = 1 + t + 1 + n + 1
        /\ label[1] = method(cursor.name)
        /\ tparams # <<>> =>
             /\ label[2] = plain(<<"<">>)
             /\ \A k \in 1..Len(tparams) : label[2 * k + 1] = plain(tparams[k])
             /\ \A k \in 1..(Len(tparams) - 1) : label[2 * k + 2] = plain(<<", ">>)
             /\ label[t + 1] = plain(<<">">>)
        /\ label[t + 2] = plain(<<"(">>)
        /\ \A k \in 1..Len(params) : label[t + 1 + 2 * k] = param(params[k])
        /\ \A k \in 1..(Len(params) - 1) : label[t + 2 + 2 * k] = plain(<<", ">>)
        /\ label[Len(label)] = plain(<<")">>)
\* C19, a node with a type: the type's tokens, space, name
C19_Typed(cursor, label) ==
    /\ Len(label) >= 3
    /\ label[Len(label) - 1] = whitespace(<<" ">>)
    /\ label[Len(label)] = className(cursor.name)
    /\ \A k \in 1..(Len(label) - 2) : label[k].kind \in {"plain", "string"}
    /\ label[1].kind = "plain"
    /\ label[1].value = SubSeq(cursor.cursor_type.value, 1, Len(label[1].value))

\* C19: the label of a node is chosen by the first of these that applies: it
\* has a children field (an empty list too) - keyword of its kind ("struct"
\* for STRUCT_DECL, "class" for a kind not in the table), space, name,
\* whatever params or cursor_type it has; it has params - name, the
\* <template parameters> group exactly when tparams is non-empty, then the
\* parameters in parentheses separated by commas; it has a cursor_type - the
\* type, space, name; none of them - the bare name.
C19_LabelPriority ==
    Labelled =>
        IF LabelCursor.children.present THEN C19_ClassLike(LabelCursor, Label)
        ELSE IF LabelCursor.params.present THEN C19_Callable(LabelCursor, Label)
        ELSE IF LabelCursor.cursor_type.present THEN C19_Typed(LabelCursor, Label)
        ELSE Label = <<plain(LabelCursor.name)>>

\* C19 witness: a STRUCT_DECL node with an empty children list, which also
\* has params and a cursor_type, is labelled "struct", space, name
C19_Witness ==
    /\ Labelled
    /\ LabelCursor.cursor_kind = "STRUCT_DECL"
    /\ LabelCursor.children = Present(<<>>)
    /\ LabelCursor.params.present
    /\ LabelCursor.cursor_type.present
    /\ Label = <<keyword(<<"struct">>), whitespace(<<" ">>), className(LabelCursor.name)>>

\* a type holds a template argument list: a '<' with a '>' after it
HasTemplateList(type) ==
    \E i, j \in 1..Len(type) : i < j /\ type[i] = "<" /\ type[j] = ">"
\* how many template argument lists are open after the first k characters
NestingDepth(type) ==
    LET depth[k \in 0..Len(type)] ==
          IF k = 0 THEN 0
          ELSE IF type[k] = "<" THEN depth[k - 1] + 1
          ELSE IF type[k] = ">" /\ depth[k - 1] > 0 THEN depth[k - 1] - 1
          ELSE depth[k - 1]
    IN  depth
\* the k-th character lies inside a template argument list
InTemplateInterior(type, k) ==
    NestingDepth(type)[k - 1] >= 1 /\ NestingDepth(type)[k] >= 1

C20_Elided(type, tokens) ==
    /\ Len(tokens) = 3
    /\ tokens[1].kind = "plain"
    /\ tokens[2] = string(<<"...">>)
    /\ tokens[3].kind = "plain"
    /\ LET prefix == tokens[1].value
           suffix == tokens[3].value
       IN  /\ prefix # <<>> /\ prefix[Len(prefix)] = "<"
           /\ suffix # <<>> /\ suffix[1] = ">"
           /\ Len(prefix) + Len(suffix) <= Len(type)
           /\ prefix = SubSeq(type, 1, Len(prefix))
           /\ suffix = SubSeq(type, Len(type) - Len(suffix) + 1, Len(type))
           /\ \A k \in (Len(prefix) + 1)..(Len(type) - Len(suffix)) :
                InTemplateInterior(type, k)

\* C20: the type of a node labelled by its type is rendered, when it is
\* longer than 50 characters and holds a template argument list, as the text
\* up to and including the opening '<', an ellipsis, and the text from the
\* closing '>' to the end - prefix and suffix exact pieces of the type that
\* do not overlap, every character dropped one of the template interior; a
\* type of 50 characters or less, and a longer one without angle brackets,
\* is rendered as one token, the type unchanged.
C20_TypeElision ==
    (/\ Labelled
     /\ ~LabelCursor.children.present
     /\ ~LabelCursor.params.present
     /\ LabelCursor.cursor_type.present) =>
        LET type == LabelCursor.cursor_type.value
            tokens == SubSeq(Label, 1, Len(Label) - 2)
        IN  /\ (Len(type) > LONG_TYPE_LENGTH /\ HasTemplateList(type))
                  => C20_Elided(type, tokens)
            /\ (Len(type) <= LONG_TYPE_LENGTH
                  \/ \A k \in 1..Len(type) : type[k] \notin {"<", ">"})
                  => tokens = <<plain(type)>>

====
